---- MODULE Spec2Model ----
(***************************************************************************)
(* Pictiv.Studio API (src/main.py): the catalog reads with their seeding,  *)
(* and the booking / inquiry submissions, over the document store.         *)
(*                                                                         *)
(* Request handlers are plain `def` routes, which the framework runs on a  *)
(* thread pool: several handlers run at once and interleave at their store *)
(* calls.  Each store call is one step of the model.                       *)
(*                                                                         *)
(* A collection whose order the store does not guarantee is a bag of       *)
(* documents.  Text is a sequence of one-character strings.                *)
(*                                                                         *)
(* Three specifications share the state:                                   *)
(*   Spec       list requests handled concurrently, on a store that may    *)
(*              already hold records, every store call free to throw;      *)
(*   SpecSeq    the same handlers, one request at a time, on a store that  *)
(*              starts empty;                                              *)
(*   SpecWrite  booking and inquiry submissions.                           *)
(* database.py (db, create_document, get_documents) is not part of the     *)
(* sources at hand; its three definitions follow its documented contract.  *)
(***************************************************************************)
EXTENDS Naturals, Sequences, FiniteSets, Bags, TLC

VARIABLES
    db,          \* the store handle of database.py: "none" or "avail"
    env,         \* the environment: STUDIO_WHATSAPP ([some, v])
    store,       \* collection name -> its documents
    nextId,      \* the next identifier the store assigns to a booking / inquiry
    pc,          \* handler thread -> its position
    cat,         \* handler thread -> the collection its list request reads
    idx,         \* handler thread -> position of the seeding loop in the catalog
    faults,      \* a store call has thrown since the start
    called,      \* the store call made by the last step
    out          \* the response sent by the last step

vars == <<db, env, store, nextId, pc, cat, idx, faults, called, out>>

\* ---------------------------------------------------------------- bounds

\* Handler threads that may be in flight at once.
NProcs == 2

\* Bookings plus inquiries the store accepts before the model stops writing.
MaxDocs == 2

Procs == 1..NProcs

\* ------------------------------------------------------------ seed data

\* The `_id` the store adds to a catalog document.  The handlers only ever drop
\* it, so every catalog document carries the same opaque value.
ObjectId == "oid"

\* DEFAULT_SERVICES, by key and name (the remaining fields are fixed per key).
DEFAULT_SERVICES ==
    << [key |-> "wedding_day", name |-> "Wedding Day Package"],
       [key |-> "pre_wedding", name |-> "Pre-Wedding Shoot"],
       [key |-> "maternity",   name |-> "Maternity Package"],
       [key |-> "portrait",    name |-> "Makeup & Portrait Session"],
       [key |-> "event",       name |-> "Event Coverage"] >>

\* DEFAULT_ANNOUNCEMENTS, by key, title and active flag.
DEFAULT_ANNOUNCEMENTS ==
    << [key |-> "festive_offer", title |-> "Festive Offer", active |-> TRUE],
       [key |-> "studio_update", title |-> "Studio Update", active |-> TRUE] >>

Catalogs == {"service", "announcement"}

\* The fixed catalog a collection is seeded from.
Defaults(c) == IF c = "service" THEN DEFAULT_SERVICES ELSE DEFAULT_ANNOUNCEMENTS

\* ------------------------------------------------------------- documents

\* The bag holding each element of a sequence as often as it occurs.
RECURSIVE SeqToBag(_)
SeqToBag(s) == IF s = <<>> THEN EmptyBag ELSE SetToBag({Head(s)}) (+) SeqToBag(Tail(s))

\* The document as the store keeps it: the record plus the generated `_id`.
WithId(r, id) == [f \in DOMAIN r \cup {"_id"} |-> IF f = "_id" THEN id ELSE r[f]]

\* r.pop("_id", None)
PopId(r) == [f \in DOMAIN r \ {"_id"} |-> r[f]]

\* The records of bag B, each with its `_id` popped.
RECURSIVE PopIds(_)
PopIds(B) ==
    IF DOMAIN B = {} THEN EmptyBag
    ELSE LET d == CHOOSE x \in DOMAIN B : TRUE
             rest == [x \in DOMAIN B \ {d} |-> B[x]]
             img == [x \in {PopId(d)} |-> B[d]]
         IN  img (+) PopIds(rest)

\* GetActive with the filter dropped: every record counts as active.
GetActiveMut(r) == TRUE

\* r.get("active", True)
GetActive(r) == IF "active" \in DOMAIN r THEN r["active"] ELSE TRUE

\* The records of bag B that pass `if r.get("active", True):`.
ActiveOnly(B) == [x \in {y \in DOMAIN B : GetActive(y)} |-> B[x]]

\* ------------------------------------------------------- optional values

\* None, or a field the payload does not carry.
Unset == [some |-> FALSE, v |-> <<>>]

Some(v) == [some |-> TRUE, v |-> v]

\* ------------------------------------------------------------------ text

\* s.replace(ch, ''): every occurrence of ch removed.
RemoveAll(s, ch) == SelectSeq(s, LAMBDA x : x # ch)

\* The literals of the WhatsApp link and its message template.
WaHost ==
    << "h", "t", "t", "p", "s", ":", "/", "/", "w", "a", ".", "m", "e", "/" >>

TextParam ==
    << "?", "t", "e", "x", "t", "=" >>

MsgHeader ==
    << "N", "e", "w", " ", "B", "o", "o", "k", "i", "n", "g", " ", "R", "e",
       "q", "u", "e", "s", "t", " ", "-", " ", "P", "i", "c", "t", "i", "v",
       ".", "S", "t", "u", "d", "i", "o" >>

NL == << "%", "0", "A" >>

NameLabel ==
    << "N", "a", "m", "e", ":", " " >>

PhoneLabel ==
    << "P", "h", "o", "n", "e", ":", " " >>

ServiceLabel ==
    << "S", "e", "r", "v", "i", "c", "e", ":", " " >>

DateLabel ==
    << "D", "a", "t", "e", ":", " " >>

Space == << " " >>

LocationLabel ==
    << "L", "o", "c", "a", "t", "i", "o", "n", ":", " " >>

NotesLabel ==
    << "N", "o", "t", "e", "s", ":", " " >>

Hyphen == << "-" >>

\* ------------------------------------------------------------- requests

\* The field values the requests of the model are built from.
Asha ==
    << "A", "s", "h", "a" >>

AmpName ==
    << "A", " ", "&", " ", "B" >>

Phone ==
    << "9", "8", "7", "6", "5", "4", "3", "2", "1", "0" >>

WeddingDay ==
    << "w", "e", "d", "d", "i", "n", "g", "_", "d", "a", "y" >>

Date ==
    << "2", "0", "2", "4", "-", "1", "2", "-", "2", "5" >>

Time ==
    << "1", "0", ":", "0", "0" >>

Nashik ==
    << "N", "a", "s", "h", "i", "k" >>

HashNote ==
    << "g", "a", "t", "e", " ", "#", "2" >>

GoodEmail ==
    << "a", "@", "b", ".", "c", "o" >>

NoAtEmail ==
    << "a", ".", "b", ".", "c", "o" >>

NoDotEmail ==
    << "a", "@", "b" >>

\* A syntactically valid address as EmailStr accepts it, to the extent the
\* addresses of the model need: one "@", a local part, a domain with an inner dot.
IsEmail(s) ==
    LET ats == {i \in 1..Len(s) : s[i] = "@"} IN
    /\ Cardinality(ats) = 1
    /\ LET at == CHOOSE i \in ats : TRUE
           domain == SubSeq(s, at + 1, Len(s))
       IN  /\ at > 1
           /\ \E j \in 2..(Len(domain) - 1) : domain[j] = "."

\* A booking payload: every field of BookingRequest, given or not.
Booking(name, email, notes) ==
    [kind |-> "booking", full_name |-> name, email |-> email, phone |-> Some(Phone),
     service_key |-> Some(WeddingDay), date |-> Some(Date), time |-> Some(Time),
     location |-> Some(Nashik), notes |-> notes, contact_via_whatsapp |-> TRUE]

\* An inquiry payload: every field of InquiryRequest, given or not.
Inquiry(name, email, phone, message) ==
    [kind |-> "inquiry", full_name |-> name, email |-> email, phone |-> phone,
     subject |-> Some(WeddingDay), message |-> message]

\* The booking payloads submitted.
Bookings ==
    { Booking(Some(Asha), Unset, Unset),
      Booking(Some(Asha), Some(GoodEmail), Some(HashNote)),
      Booking(Some(AmpName), Unset, Some(<<>>)),
      Booking(Unset, Some(GoodEmail), Unset),
      Booking(Some(Asha), Some(NoAtEmail), Unset),
      Booking(Some(Asha), Some(NoDotEmail), Some(HashNote)) }

\* The inquiry payloads submitted.
Inquiries ==
    { Inquiry(Some(Asha), Unset, Unset, Some(HashNote)),
      Inquiry(Some(AmpName), Some(GoodEmail), Some(Phone), Some(HashNote)),
      Inquiry(Some(Asha), Some(NoAtEmail), Unset, Some(HashNote)),
      Inquiry(Unset, Unset, Unset, Some(HashNote)),
      Inquiry(Some(Asha), Some(GoodEmail), Unset, Unset) }

\* EmailOk with the address taken as a plain string.
EmailOkMut(e) == TRUE

\* `email: Optional[EmailStr] = None`
EmailOk(e) == ~e.some \/ IsEmail(e.v)

\* BookingRequest accepts the payload.
ValidBooking(b) ==
    /\ b.full_name.some /\ b.phone.some /\ b.service_key.some
    /\ b.date.some /\ b.time.some /\ b.location.some
    /\ EmailOk(b.email)

\* InquiryRequest accepts the payload.
ValidInquiry(i) ==
    /\ i.full_name.some /\ i.subject.some /\ i.message.some
    /\ EmailOk(i.email)

\* ------------------------------------------------------ database adapter

\* create_document(collection_name, record): the collection with the record
\* added under a generated `_id`.  A failing insert raises and stores nothing.
create_document(coll, doc, id) ==
    [store EXCEPT ![coll] = @ (+) SetToBag({WithId(doc, id)})]

\* get_documents(collection_name): every document of the collection.
get_documents(coll) == store[coll]

\* get_documents raises when the handle is the unavailable sentinel, and when
\* the store read fails (readOk = FALSE).
get_documents_raises(readOk) == db = "none" \/ ~readOk

\* The last step made no store call.
NoCall == [fn |-> "none", ok |-> TRUE]

Call(fn, ok) == [fn |-> fn, ok |-> ok]

\* --------------------------------------------------------------- responses

NoReq == [kind |-> "none"]

\* The last step sent no response.
NoResp ==
    [op |-> "none", code |-> 0, items |-> EmptyBag, fallback |-> FALSE,
     error |-> FALSE, id |-> 0, status |-> "", whatsapp |-> <<>>, req |-> NoReq]

ListOp(c) == IF c = "service" THEN "list_services" ELSE "list_announcements"

\* FallbackItems with the first entry of the catalog left out.
FallbackItemsMut(c) == SeqToBag(Tail(Defaults(c)))

\* [s.dict() for s in DEFAULT_SERVICES] resp. [a.dict() for a in DEFAULT_ANNOUNCEMENTS]
FallbackItems(c) == SeqToBag(Defaults(c))

\* The items a list handler builds from the records it read: every service
\* record, the announcement records with a true `active`; `_id` popped.
LiveItems(c, records) ==
    IF c = "service" THEN PopIds(records) ELSE PopIds(ActiveOnly(records))

\* return {"items": ...}
LiveResponse(c, records) ==
    [NoResp EXCEPT !.op = ListOp(c), !.code = 200, !.items = LiveItems(c, records)]

\* return {"items": <defaults>, "fallback": True, "error": str(e)[:120]}
FallbackResponse(c) ==
    [NoResp EXCEPT !.op = ListOp(c), !.code = 200, !.items = FallbackItems(c),
                   !.fallback = TRUE, !.error = TRUE]

\* ------------------------------------------------- catalog reads: seeding

\* NotExisting without the existence check: every call seeds.
NotExistingMut(existing) == TRUE

\* `if not existing:` of ensure_*_seeded.
NotExisting(existing) == existing = EmptyBag

\* A list request arrives while the handle is unavailable: ensure_*_seeded
\* returns at once, get_documents raises, the handler answers the fallback.
ListNoDb(p, c) ==
    /\ pc[p] = "idle"
    /\ db = "none"
    /\ get_documents_raises(TRUE)
    /\ out' = FallbackResponse(c)
    /\ called' = NoCall
    /\ UNCHANGED <<db, env, store, nextId, pc, cat, idx, faults>>

\* A list request arrives: ensure_*_seeded runs its existence check,
\* db[c].find({}, {"key": 1}), and enters the seeding loop on an empty result.
EnsureFind(p, c) ==
    /\ pc[p] = "idle"
    /\ db = "avail"
    /\ cat' = [cat EXCEPT ![p] = c]
    /\ idx' = [idx EXCEPT ![p] = 1]
    /\ pc' = [pc EXCEPT ![p] = IF NotExisting(store[c]) THEN "seed" ELSE "read"]
    /\ called' = Call("find", TRUE)
    /\ out' = NoResp
    /\ UNCHANGED <<db, env, store, nextId, faults>>

\* The existence check throws: `except Exception: pass`, on to the read.
EnsureFindThrows(p, c) ==
    /\ pc[p] = "idle"
    /\ db = "avail"
    /\ cat' = [cat EXCEPT ![p] = c]
    /\ idx' = [idx EXCEPT ![p] = 1]
    /\ pc' = [pc EXCEPT ![p] = "read"]
    /\ faults' = TRUE
    /\ called' = Call("find", FALSE)
    /\ out' = NoResp
    /\ UNCHANGED <<db, env, store, nextId>>

\* One turn of `for s in DEFAULT_...: create_document(c, s.dict())`.
SeedInsert(p) ==
    /\ pc[p] = "seed"
    /\ store' = create_document(cat[p], Defaults(cat[p])[idx[p]], ObjectId)
    /\ idx' = [idx EXCEPT ![p] = @ + 1]
    /\ pc' = [pc EXCEPT ![p] = IF idx[p] = Len(Defaults(cat[p])) THEN "read" ELSE "seed"]
    /\ called' = Call("create_document", TRUE)
    /\ out' = NoResp
    /\ UNCHANGED <<db, env, nextId, cat, faults>>

\* SeedInsertThrows without the `except`: the exception reaches the caller
\* of the list request as a server error.
SeedInsertThrowsMut(p) ==
    /\ pc[p] = "seed"
    /\ out' = [NoResp EXCEPT !.op = ListOp(cat[p]), !.code = 500, !.error = TRUE]
    /\ faults' = TRUE
    /\ called' = Call("create_document", FALSE)
    /\ pc' = [pc EXCEPT ![p] = "idle"]
    /\ cat' = [cat EXCEPT ![p] = "service"]
    /\ idx' = [idx EXCEPT ![p] = 1]
    /\ UNCHANGED <<db, env, store, nextId>>

\* A seeding insert throws: the loop is left, `except Exception: pass`.
SeedInsertThrows(p) ==
    /\ pc[p] = "seed"
    /\ pc' = [pc EXCEPT ![p] = "read"]
    /\ faults' = TRUE
    /\ called' = Call("create_document", FALSE)
    /\ out' = NoResp
    /\ UNCHANGED <<db, env, store, nextId, cat, idx>>

\* --------------------------------------------------- catalog reads: read

\* The handler returns: its thread is free again and its locals are gone.
Return(p) ==
    /\ pc' = [pc EXCEPT ![p] = "idle"]
    /\ cat' = [cat EXCEPT ![p] = "service"]
    /\ idx' = [idx EXCEPT ![p] = 1]

\* records = get_documents(c); the items are built and returned.
ListRead(p) ==
    /\ pc[p] = "read"
    /\ ~get_documents_raises(TRUE)
    /\ out' = LiveResponse(cat[p], get_documents(cat[p]))
    /\ called' = Call("get_documents", TRUE)
    /\ Return(p)
    /\ UNCHANGED <<db, env, store, nextId, faults>>

\* get_documents throws: the handler answers the fallback.
ListReadThrows(p) ==
    /\ pc[p] = "read"
    /\ get_documents_raises(FALSE)
    /\ out' = FallbackResponse(cat[p])
    /\ faults' = TRUE
    /\ called' = Call("get_documents", FALSE)
    /\ Return(p)
    /\ UNCHANGED <<db, env, store, nextId>>

\* ------------------------------------------------------------ catalog spec

\* An announcement an operator switched off, kept in the store.
InactiveDoc == WithId([key |-> "old_offer", title |-> "Old Offer", active |-> FALSE], ObjectId)

\* An announcement written without an `active` field.
BareDoc == [key |-> "notice", title |-> "Notice", _id |-> ObjectId]

\* What the service and the announcement collection may hold when the service
\* starts: nothing; records written by hand; a seeded catalog edited since.
Presets ==
    { <<EmptyBag, EmptyBag>>,
      <<EmptyBag, SetToBag({InactiveDoc, BareDoc})>>,
      <<SetToBag({WithId([key |-> "custom", name |-> "Custom Shoot"], ObjectId)}),
        SetToBag({InactiveDoc,
                  WithId(DEFAULT_ANNOUNCEMENTS[1], ObjectId),
                  WithId([DEFAULT_ANNOUNCEMENTS[2] EXCEPT !.active = FALSE], ObjectId)})>> }

EmptyStore ==
    [c \in {"service", "announcement", "booking", "inquiry"} |-> EmptyBag]

InitThreads ==
    /\ nextId = 1
    /\ pc = [p \in Procs |-> "idle"]
    /\ cat = [p \in Procs |-> "service"]
    /\ idx = [p \in Procs |-> 1]
    /\ faults = FALSE
    /\ called = NoCall
    /\ out = NoResp

\* The service starts: the handle is set once (database.py), the store holds
\* whatever it held before.
Init ==
    /\ db \in {"none", "avail"}
    /\ env = Unset
    /\ \E pre \in Presets :
          store = IF db = "none" THEN EmptyStore
                  ELSE [EmptyStore EXCEPT !["service"] = pre[1], !["announcement"] = pre[2]]
    /\ InitThreads

ListStep(p) ==
    \/ \E c \in Catalogs : ListNoDb(p, c)
    \/ \E c \in Catalogs : EnsureFind(p, c)
    \/ \E c \in Catalogs : EnsureFindThrows(p, c)
    \/ SeedInsert(p)
    \/ SeedInsertThrows(p)
    \/ ListRead(p)
    \/ ListReadThrows(p)

\* Concurrent list requests.
Next == \E p \in Procs : ListStep(p)

Spec == Init /\ [][Next]_vars

\* No other handler is in flight.
Alone(p) == \A q \in Procs \ {p} : pc[q] = "idle"

\* The service starts on a store with no documents.
InitSeq ==
    /\ db \in {"none", "avail"}
    /\ env = Unset
    /\ store = EmptyStore
    /\ InitThreads

\* List requests handled one after another.
NextSeq ==
    \E p \in Procs :
        \/ \E c \in Catalogs : Alone(p) /\ ListNoDb(p, c)
        \/ \E c \in Catalogs : Alone(p) /\ EnsureFind(p, c)
        \/ \E c \in Catalogs : Alone(p) /\ EnsureFindThrows(p, c)
        \/ Alone(p) /\ SeedInsert(p)
        \/ Alone(p) /\ SeedInsertThrows(p)
        \/ Alone(p) /\ ListRead(p)
        \/ Alone(p) /\ ListReadThrows(p)

SpecSeq == InitSeq /\ [][NextSeq]_vars

\* ------------------------------------------------------------ submissions

\* The default of os.getenv("STUDIO_WHATSAPP", ...).
DefaultNumber ==
    << "+", "9", "1", "9", "9", "9", "9", "9", "9", "9", "9", "9", "9" >>

\* os.getenv("STUDIO_WHATSAPP", "+919999999999")
whatsapp_number == IF env.some THEN env.v ELSE DefaultNumber

\* `booking.notes or '-'`
NotesOrHyphen(notes) == IF notes.some /\ notes.v # <<>> THEN notes.v ELSE Hyphen

\* The f-string `msg` of create_booking.
msg(b) ==
    MsgHeader \o NL
    \o NameLabel \o b.full_name.v \o NL
    \o PhoneLabel \o b.phone.v \o NL
    \o ServiceLabel \o b.service_key.v \o NL
    \o DateLabel \o b.date.v \o Space \o b.time.v \o NL
    \o LocationLabel \o b.location.v \o NL
    \o NotesLabel \o NotesOrHyphen(b.notes)

\* wa_link with the number embedded as configured.
wa_linkMut(b) == WaHost \o whatsapp_number \o TextParam \o msg(b)

\* The f-string `wa_link` of create_booking.
wa_link(b) == WaHost \o RemoveAll(whatsapp_number, "+") \o TextParam \o msg(b)

\* The response to a submission.
Response(op, req, code) == [NoResp EXCEPT !.op = op, !.req = req, !.code = code]

\* return {"id": booking_id, "status": "received", "whatsapp": wa_link}
BookingReceived(b, id) ==
    [Response("create_booking", b, 200) EXCEPT
        !.id = id, !.status = "received", !.whatsapp = wa_link(b)]

\* return {"id": inquiry_id, "status": "received"}
InquiryReceived(i, id) ==
    [Response("create_inquiry", i, 200) EXCEPT !.id = id, !.status = "received"]

\* The store takes another document (the model stops writing at MaxDocs).
Room == nextId <= MaxDocs

\* The payload fails BookingRequest: the framework answers 422 and the
\* handler never runs.
RejectBooking(b) ==
    /\ ~ValidBooking(b)
    /\ out' = Response("create_booking", b, 422)
    /\ called' = NoCall
    /\ UNCHANGED <<db, env, store, nextId, pc, cat, idx, faults>>

\* create_booking, `if db is None: raise HTTPException(status_code=503, ...)`.
BookingNoDb(b) ==
    /\ ValidBooking(b)
    /\ db = "none"
    /\ out' = Response("create_booking", b, 503)
    /\ called' = NoCall
    /\ UNCHANGED <<db, env, store, nextId, pc, cat, idx, faults>>

\* create_booking: the record is stored and the link built.
CreateBooking(b) ==
    /\ ValidBooking(b)
    /\ db = "avail"
    /\ Room
    /\ store' = create_document("booking", b, nextId)
    /\ nextId' = nextId + 1
    /\ out' = BookingReceived(b, nextId)
    /\ called' = Call("create_document", TRUE)
    /\ UNCHANGED <<db, env, pc, cat, idx, faults>>

\* create_booking: create_document throws, `raise HTTPException(status_code=500, ...)`.
CreateBookingThrows(b) ==
    /\ ValidBooking(b)
    /\ db = "avail"
    /\ out' = Response("create_booking", b, 500)
    /\ faults' = TRUE
    /\ called' = Call("create_document", FALSE)
    /\ UNCHANGED <<db, env, store, nextId, pc, cat, idx>>

\* The payload fails InquiryRequest: 422, the handler never runs.
RejectInquiry(i) ==
    /\ ~ValidInquiry(i)
    /\ out' = Response("create_inquiry", i, 422)
    /\ called' = NoCall
    /\ UNCHANGED <<db, env, store, nextId, pc, cat, idx, faults>>

\* create_inquiry, `if db is None: raise HTTPException(status_code=503, ...)`.
InquiryNoDb(i) ==
    /\ ValidInquiry(i)
    /\ db = "none"
    /\ out' = Response("create_inquiry", i, 503)
    /\ called' = NoCall
    /\ UNCHANGED <<db, env, store, nextId, pc, cat, idx, faults>>

\* CreateInquiry writing to the booking collection.
CreateInquiryMut(i) ==
    /\ ValidInquiry(i)
    /\ db = "avail"
    /\ Room
    /\ store' = create_document("booking", i, nextId)
    /\ nextId' = nextId + 1
    /\ out' = InquiryReceived(i, nextId)
    /\ called' = Call("create_document", TRUE)
    /\ UNCHANGED <<db, env, pc, cat, idx, faults>>

\* create_inquiry: the record is stored.
CreateInquiry(i) ==
    /\ ValidInquiry(i)
    /\ db = "avail"
    /\ Room
    /\ store' = create_document("inquiry", i, nextId)
    /\ nextId' = nextId + 1
    /\ out' = InquiryReceived(i, nextId)
    /\ called' = Call("create_document", TRUE)
    /\ UNCHANGED <<db, env, pc, cat, idx, faults>>

\* create_inquiry: create_document throws, `raise HTTPException(status_code=500, ...)`.
CreateInquiryThrows(i) ==
    /\ ValidInquiry(i)
    /\ db = "avail"
    /\ out' = Response("create_inquiry", i, 500)
    /\ faults' = TRUE
    /\ called' = Call("create_document", FALSE)
    /\ UNCHANGED <<db, env, store, nextId, pc, cat, idx>>

\* The values STUDIO_WHATSAPP is set to: not at all, a number in the usual
\* form, one without the sign, and one with a second sign inside.
Numbers ==
    { Unset,
      Some(<< "+", "9", "1", "7", "0" >>),
      Some(<< "9", "1", "7", "0" >>),
      Some(<< "+", "9", "1", "+", "7", "0" >>) }

\* The service starts with no booking and no inquiry stored.
InitWrite ==
    /\ db \in {"none", "avail"}
    /\ env \in Numbers
    /\ store = EmptyStore
    /\ InitThreads

\* Submissions.  A submission is one store call at most, so it is one step;
\* it touches the booking and inquiry collections only, the list requests
\* the service and announcement collections only.
NextWrite ==
    \/ \E b \in Bookings : RejectBooking(b)
    \/ \E b \in Bookings : BookingNoDb(b)
    \/ \E b \in Bookings : CreateBooking(b)
    \/ \E b \in Bookings : CreateBookingThrows(b)
    \/ \E i \in Inquiries : RejectInquiry(i)
    \/ \E i \in Inquiries : InquiryNoDb(i)
    \/ \E i \in Inquiries : CreateInquiry(i)
    \/ \E i \in Inquiries : CreateInquiryThrows(i)

SpecWrite == InitWrite /\ [][NextWrite]_vars

\* ================================================================ claims

ListOps == {"list_services", "list_announcements"}

WriteOps == {"create_booking", "create_inquiry"}

\* The catalog a list operation serves.
CatalogOf(op) == IF op = "list_services" THEN "service" ELSE "announcement"

\* The last step was a store read that threw.
ReadThrew == called.fn = "get_documents" /\ ~called.ok

AllIdle == \A p \in Procs : pc[p] = "idle"

\* C1: a list response sent while the store handle is unavailable, or after
\* the store read threw, carries fallback = true and, as items, every entry of
\* the built-in catalog once and nothing else.
C1_FallbackIsTheDefaults ==
    (out.op \in ListOps /\ (db = "none" \/ ReadThrew)) =>
        LET D == Defaults(CatalogOf(out.op)) IN
        /\ out.fallback
        /\ BagToSet(out.items) = {D[i] : i \in 1..Len(D)}
        /\ \A i \in 1..Len(D) : CopiesIn(D[i], out.items) = 1

\* C1 witness: the announcement read throws on a store that holds records.
C1_Witness ==
    /\ out.op = "list_announcements"
    /\ db = "avail"
    /\ ReadThrew
    /\ out.fallback
    /\ store["announcement"] # EmptyBag

\* C2: with list requests handled one after another on a store that starts
\* empty, a catalog collection never holds more records than its built-in
\* catalog has entries; and while no store call has thrown, it holds exactly
\* that many after every list request of that catalog, however many ran.
C2_SeedingIdempotent ==
    \A c \in Catalogs :
        /\ BagCardinality(store[c]) <= Len(Defaults(c))
        /\ (db = "avail" /\ ~faults /\ out.op = ListOp(c)) =>
              BagCardinality(store[c]) = Len(Defaults(c))

\* C2 witness: a later list-services call has found the seeded collection and
\* skipped the seeding loop; nothing has thrown; the collection holds
\* len(DEFAULT_SERVICES) records.
C2_Witness ==
    /\ ~faults
    /\ \E p \in Procs : pc[p] = "read" /\ cat[p] = "service" /\ idx[p] = 1
    /\ BagCardinality(store["service"]) = Len(DEFAULT_SERVICES)

\* C3 (as claimed): no default entry is stored more than once in its
\* collection, whatever the interleaving of concurrent list requests.
C3_SeededAtMostOnce ==
    \A c \in Catalogs : \A i \in 1..Len(Defaults(c)) :
        CopiesIn(WithId(Defaults(c)[i], ObjectId), store[c]) <= 1

\* C4: no item of a list-announcements response, live or fallback, has a
\* false `active`.
C4_OnlyActiveReturned ==
    out.op = "list_announcements" =>
        \A r \in BagToSet(out.items) : ~("active" \in DOMAIN r /\ r["active"] = FALSE)

\* C4 witness: a live response with items, sent while the store holds an
\* inactive announcement.
C4_Witness ==
    /\ out.op = "list_announcements"
    /\ ~out.fallback
    /\ out.items # EmptyBag
    /\ BagIn(InactiveDoc, store["announcement"])

\* The collection a submission writes to.
CollectionOf(op) == IF op = "create_booking" THEN "booking" ELSE "inquiry"

\* C5: a submission is answered {id, status: "received"} only by a step that
\* adds exactly one record, the submitted one under the returned id, to its own
\* collection and changes no other; with the handle unavailable the answer is
\* 503 and the store is not called; when the insert throws the answer is 500;
\* in both cases every collection is unchanged.
C5_WritesPersistOrFail ==
    [][ out'.op \in WriteOps =>
          /\ out'.status = "received" =>
                LET c == CollectionOf(out'.op)
                    d == WithId(out'.req, out'.id)
                IN  /\ CopiesIn(d, store[c]) = 0
                    /\ store' = [store EXCEPT ![c] = @ (+) SetToBag({d})]
                    /\ called' = Call("create_document", TRUE)
          /\ (db = "none" /\ out'.code # 422) =>
                out'.code = 503 /\ called'.fn = "none" /\ store' = store
          /\ (called'.fn = "create_document" /\ ~called'.ok) =>
                out'.code = 500 /\ store' = store
          /\ out'.status # "received" => store' = store
      ]_vars

\* C5 witness: a booking has been answered "received".
C5_Witness ==
    /\ out.op = "create_booking"
    /\ out.status = "received"
    /\ BagCardinality(store["booking"]) = 1

\* The required fields of a submission.
RequiredOf(op) ==
    IF op = "create_booking"
    THEN {"full_name", "phone", "service_key", "date", "time", "location"}
    ELSE {"full_name", "subject", "message"}

\* A required field is missing from the payload.
MissingRequired(op, req) == \E f \in RequiredOf(op) : ~req[f].some

\* The payload carries an address that is not one.
BadEmail(req) == req.email.some /\ req.email.v \in {NoAtEmail, NoDotEmail}

\* C6: a submission with a required field missing, or with an email that is
\* present and syntactically invalid, is answered 422 by a step that calls no
\* store operation and changes no collection; an inquiry with every required
\* field and no email is not answered 422, and is answered "received" when its
\* insert succeeds.
C6_ValidationFirst ==
    [][ out'.op \in WriteOps =>
          /\ (MissingRequired(out'.op, out'.req) \/ BadEmail(out'.req)) =>
                out'.code = 422 /\ called' = NoCall /\ store' = store
          /\ (/\ out'.op = "create_inquiry"
              /\ ~MissingRequired(out'.op, out'.req)
              /\ ~out'.req.email.some) =>
                /\ out'.code # 422
                /\ called' = Call("create_document", TRUE) => out'.status = "received"
      ]_vars

\* C6 witness: an inquiry without an email is stored, and a submission with
\* an invalid email has just been rejected.
C6_Witness ==
    /\ out.code = 422
    /\ BadEmail(out.req)
    /\ \E d \in BagToSet(store["inquiry"]) : ~d["email"].some

\* The configured studio number.
ConfiguredNumber == IF env.some THEN env.v ELSE DefaultNumber

\* s with its leading "+", if any, stripped.
StripLeadingPlus(s) == IF s # <<>> /\ Head(s) = "+" THEN Tail(s) ELSE s

\* s without any "+".
RECURSIVE StripEveryPlus(_)
StripEveryPlus(s) ==
    IF s = <<>> THEN <<>>
    ELSE IF Head(s) = "+" THEN StripEveryPlus(Tail(s))
    ELSE <<Head(s)>> \o StripEveryPlus(Tail(s))

\* The lines of ls, each two joined by the literal %0A.
RECURSIVE JoinLines(_)
JoinLines(ls) ==
    IF Len(ls) = 1 THEN ls[1] ELSE ls[1] \o NL \o JoinLines(Tail(ls))

\* The lines of the message template for booking b, its notes rendered as n.
TemplateLines(b, n) ==
    << MsgHeader,
       NameLabel \o b.full_name.v,
       PhoneLabel \o b.phone.v,
       ServiceLabel \o b.service_key.v,
       DateLabel \o b.date.v \o Space \o b.time.v,
       LocationLabel \o b.location.v,
       NotesLabel \o n >>

\* https://wa.me/<number>?text=<message>
LinkOf(number, lines) == WaHost \o number \o TextParam \o JoinLines(lines)

BookingReceivedNow == out.op = "create_booking" /\ out.status = "received"

\* C7 (as claimed): the link of a successful booking is
\* https://wa.me/<number>?text=<message>, the number with only its leading +
\* stripped, the notes a hyphen when absent.
C7_LinkAsClaimed ==
    BookingReceivedNow =>
        out.whatsapp =
            LinkOf(StripLeadingPlus(ConfiguredNumber),
                   TemplateLines(out.req, IF out.req.notes.some THEN out.req.notes.v
                                          ELSE Hyphen))

\* C7 (amended): the link of a successful booking is
\* https://wa.me/<number>?text=<message>, the number with every + removed, the
\* message the fixed template over name, phone, service_key, date and time,
\* location, notes, joined by the literal %0A, the notes a hyphen when absent
\* or empty: a function of the booking and the configured number alone.
C7_LinkAmended ==
    BookingReceivedNow =>
        out.whatsapp =
            LinkOf(StripEveryPlus(ConfiguredNumber),
                   TemplateLines(out.req,
                                 IF out.req.notes.some /\ Len(out.req.notes.v) > 0
                                 THEN out.req.notes.v ELSE Hyphen))

\* C7 witness: a booking with empty notes is answered while the configured
\* number has a + inside.
C7_Witness ==
    /\ BookingReceivedNow
    /\ out.req.notes.some /\ out.req.notes.v = <<>>
    /\ env.some /\ \E i \in 2..Len(env.v) : env.v[i] = "+"

\* How often character ch occurs in s.
Occurrences(ch, s) == Cardinality({i \in 1..Len(s) : s[i] = ch})

\* The link of a booking whose every field is empty: the literals alone.
LiteralsOfLink ==
    LinkOf(<<>>, << MsgHeader, NameLabel, PhoneLabel, ServiceLabel,
                    DateLabel \o Space, LocationLabel, NotesLabel >>)

\* Characters reserved in a URL query that no percent-encoding produces.
ReservedChars == {" ", "&", "#"}

\* C8 (as claimed): the field values are URL-encoded in the link: a reserved
\* character occurs in the link only as often as the literals of the link
\* hold it, never once more for a field value.
C8_FieldsEncoded ==
    BookingReceivedNow =>
        \A ch \in ReservedChars :
            Occurrences(ch, out.whatsapp) = Occurrences(ch, LiteralsOfLink)

\* C9: every response of a list request has its items (status 200); it
\* reports an error only when the handle is unavailable or the read just
\* threw; and a step in which the existence check or a seeding insert throws
\* sends no response and leaves a handler at its read.
C9_ReadsNeverHardFail ==
    /\ out.op \in ListOps =>
          /\ out.code = 200
          /\ out.error => (db = "none" \/ ReadThrew)
    /\ (called.fn \in {"find", "create_document"} /\ ~called.ok) =>
          /\ out = NoResp
          /\ \E p \in Procs : pc[p] = "read"

\* C9 witness: a list-services response without error or fallback, sent with
\* no other request in flight on a collection that seeding left with its first
\* entry only (the second insert threw).
C9_Witness ==
    /\ out.op = "list_services"
    /\ ~out.error /\ ~out.fallback
    /\ AllIdle
    /\ store["service"] = SetToBag({WithId(DEFAULT_SERVICES[1], ObjectId)})
    /\ out.items = SetToBag({DEFAULT_SERVICES[1]})

\* C10 (as claimed): on a store that starts empty, with list requests handled
\* one after another, every response without fallback, and the collection
\* behind it, holds every entry of the built-in catalog (every active one for
\* announcements).
C10_SeedingAllOrNothing ==
    \A c \in Catalogs :
        (out.op = ListOp(c) /\ ~out.fallback) =>
            \A i \in 1..Len(Defaults(c)) :
                GetActive(Defaults(c)[i]) =>
                    /\ BagIn(Defaults(c)[i], out.items)
                    /\ BagIn(WithId(Defaults(c)[i], ObjectId), store[c])

====
